---- MODULE Spec2Model ----
(***************************************************************************)
(* A model of the wordtrie package: the Trie class of trie.py (insert,     *)
(* __getitem__, __contains__, traverse) and the tile-hand functions of     *)
(* scrabble.py (can_play, play, unplay).                                   *)
(*                                                                         *)
(* A Python str is a sequence of one-character strings, so "CAT" is        *)
(* <<"C", "A", "T">>.  A Trie object is a record holding its three         *)
(* attributes; a child Trie is nested in its parent's children list, as    *)
(* the parent is the only holder of a reference to it.  Python's None and  *)
(* an optional value x are the sequences <<>> and <<x>>.                   *)
(***************************************************************************)
EXTENDS Integers, Sequences, FiniteSets, Bags, TLC

VARIABLES
    trie,   \* the root Trie object
    log,    \* history: the bag of the words insert was called with
    last,   \* the last call: its name and outcome and, but for insert, its argument
    my_hand, \* the Counter of tiles that play and unplay are called on
    held    \* history: the plays not yet taken back, each with the hand before it

vars == <<trie, log, last, my_hand, held>>

-----------------------------------------------------------------------------
(* Bounds of the model. *)

\* how many insert calls one behaviour makes
MaxInserts == 3
\* the longest word inserted; queries are as long, so they reach past the stored words
MaxWordLen == 2
\* how many items a partial consumption of traverse takes at most
MaxTake == 1
\* how many insert calls a behaviour of the CAT/CAR/CARD/DOG scenario makes
MaxScenarioInserts == 5

-----------------------------------------------------------------------------
(* Characters. *)

None == <<>>

NoError == "NoError"
IndexError == "IndexError"
AssertionError == "AssertionError"

\* The letters a word is made of, in code point order.
Letters ==
    << "A", "B", "C", "D", "E", "F", "G", "H", "I", "J", "K", "L", "M",
       "N", "O", "P", "Q", "R", "S", "T", "U", "V", "W", "X", "Y", "Z" >>

IsLetter(c) == \E i \in 1..26 : Letters[i] = c

\* ord(c): the code point of a character.
CodePoint(c) ==
    IF IsLetter(c) THEN 64 + (CHOOSE i \in 1..26 : Letters[i] = c)
    ELSE CASE c = "'" -> 39
           [] c = "." -> 46
           [] c = "@" -> 64
           [] c = "[" -> 91
           [] c = "a" -> 97

\* The characters of the model, and their code points as a table.
Chars == {Letters[i] : i \in 1..26} \cup {"'", ".", "@", "[", "a"}
CodePoints == [c \in Chars |-> CodePoint(c)]

ord(c) == CodePoints[c]

\* chr(n), for the code points traverse builds: ord('A') + 0 .. ord('A') + 25.
chr(n) == Letters[n - 64]

\* The length of a node's children list.
NSlots == 26

\* Does children[i] raise IndexError?  A Python list of 26 items takes the
\* indices -26 .. 25.
OutOfRange(i) == i < -NSlots \/ i >= NSlots

\* children[i] for an index in range: a negative index counts from the end.
\* (Sequences here start at 1.)
Item(children, i) == IF i >= 0 THEN children[i + 1] ELSE children[i + NSlots + 1]

-----------------------------------------------------------------------------
(* class Trie *)

\* Trie.__init__
NewTrie == [is_word |-> FALSE, children |-> None, n_descendants |-> 0]

\* enter with the child replaced by a new Trie also when there is one already.
enter_overwrite(self, index) ==
    LET children1 == IF self.children = None
                     THEN [i \in 1..NSlots |-> None]
                     ELSE self.children
    IN  [self EXCEPT !.children = [children1 EXCEPT ![index + 1] = <<NewTrie>>],
                     !.n_descendants = self.n_descendants + 1]

\* enter with the count going up only when the child is created.
enter_count_new(self, index) ==
    LET children1 == IF self.children = None
                     THEN [i \in 1..NSlots |-> None]
                     ELSE self.children
    IN  IF children1[index + 1] = None
        THEN [self EXCEPT !.children = [children1 EXCEPT ![index + 1] = <<NewTrie>>],
                          !.n_descendants = self.n_descendants + 1]
        ELSE [self EXCEPT !.children = children1]

\* The body of insert between the assertion and the recursive call: the children
\* list and the child at index are created when missing, and the count goes up.
enter(self, index) ==
    LET children1 == IF self.children = None
                     THEN [i \in 1..NSlots |-> None]
                     ELSE self.children
        children2 == IF children1[index + 1] = None
                     THEN [children1 EXCEPT ![index + 1] = <<NewTrie>>]
                     ELSE children1
    IN  [self EXCEPT !.children = children2,
                     !.n_descendants = self.n_descendants + 1]

\* insert(self, word): the object after the call, and whether the call raised.
\* What the call did before an assertion failed deeper down stays done.
RECURSIVE insert(_, _)
insert(self, word) ==
    IF word = <<>> THEN
        [self |-> [self EXCEPT !.is_word = TRUE], raised |-> NoError]
    ELSE
        LET char == Head(word)
            remaining == Tail(word)
        IN  IF ~(ord("A") <= ord(char) /\ ord(char) <= ord("Z")) THEN
                [self |-> self, raised |-> AssertionError]
            ELSE
                LET index == ord(char) - ord("A")
                    entered == enter(self, index)
                    r == insert(entered.children[index + 1][1], remaining)
                IN  [self |-> [entered EXCEPT !.children[index + 1] = <<r.self>>],
                     raised |-> r.raised]

\* self[prefix]: the node returned (None, or <<node>>), and whether the call raised.
RECURSIVE getitem(_, _)
getitem(self, prefix) ==
    IF prefix # <<>> THEN
        IF self.children # None THEN
            LET i == ord(Head(prefix)) - ord("A")
            IN  IF OutOfRange(i) THEN [ret |-> None, raised |-> IndexError]
                ELSE IF Item(self.children, i) # None
                     THEN getitem(Item(self.children, i)[1], Tail(prefix))
                     ELSE [ret |-> None, raised |-> NoError]
        ELSE [ret |-> None, raised |-> NoError]
    ELSE [ret |-> <<self>>, raised |-> NoError]

\* word in self
contains(self, word) ==
    LET node == getitem(self, word)
    IN  [value |-> node.raised = NoError /\ node.ret # None /\ node.ret[1].is_word,
         raised |-> node.raised]

\* traverse_base yielding the prefix whether it is a word or not.
traverse_base_unchecked(self, prefix) == <<prefix>>

\* The base case of traverse: the pattern is used up.
traverse_base(self, prefix) == IF self.is_word THEN <<prefix>> ELSE <<>>

\* traverse(self, pattern, prefix), consumed to its end: the words yielded, in
\* the order they are yielded, up to the point where the generator raised, if
\* it did.
RECURSIVE traverse(_, _, _), traverse_from(_, _, _, _)
traverse(self, pattern, prefix) ==
    IF pattern = <<>> THEN
        [out |-> traverse_base(self, prefix), raised |-> NoError]
    ELSE IF self.children = None THEN
        [out |-> <<>>, raised |-> NoError]
    ELSE
        LET char == Head(pattern)
            remaining_pattern == Tail(pattern)
        IN  IF char = "." THEN
                traverse_from(self, 0, remaining_pattern, prefix)
            ELSE
                LET i == ord(char) - ord("A")
                IN  IF OutOfRange(i) THEN [out |-> <<>>, raised |-> IndexError]
                    ELSE IF Item(self.children, i) # None
                         THEN traverse(Item(self.children, i)[1], remaining_pattern,
                                       Append(prefix, char))
                         ELSE [out |-> <<>>, raised |-> NoError]

\* traverse_from going through the children from the last to the first.
RECURSIVE traverse_from_reversed(_, _, _, _)
traverse_from_reversed(self, idx, remaining_pattern, prefix) ==
    IF idx >= NSlots THEN [out |-> <<>>, raised |-> NoError]
    ELSE
        LET at == NSlots - 1 - idx
            child == self.children[at + 1]
        IN  IF child = None
            THEN traverse_from_reversed(self, idx + 1, remaining_pattern, prefix)
            ELSE
                LET new_prefix == Append(prefix, chr(at + ord("A")))
                    r == traverse(child[1], remaining_pattern, new_prefix)
                IN  IF r.raised # NoError THEN r
                    ELSE LET rest == traverse_from_reversed(self, idx + 1,
                                                            remaining_pattern, prefix)
                         IN  [out |-> r.out \o rest.out, raised |-> rest.raised]

\* The loop over enumerate(self.children) of the wildcard branch, from idx on.
traverse_from(self, idx, remaining_pattern, prefix) ==
    IF idx >= NSlots THEN [out |-> <<>>, raised |-> NoError]
    ELSE
        LET child == self.children[idx + 1]
        IN  IF child = None THEN traverse_from(self, idx + 1, remaining_pattern, prefix)
            ELSE
                LET new_prefix == Append(prefix, chr(idx + ord("A")))
                    r == traverse(child[1], remaining_pattern, new_prefix)
                IN  IF r.raised # NoError THEN r
                    ELSE LET rest == traverse_from(self, idx + 1, remaining_pattern, prefix)
                         IN  [out |-> r.out \o rest.out, raised |-> rest.raised]

-----------------------------------------------------------------------------
(* Calls on the trie. *)

\* The record of a call: what was called with what, and what came of it.
\* before is <<the object the call was made on, as it was when the call was made>>.
Call(op, arg, before, raised, value, ret, out) ==
    [op |-> op, arg |-> arg, before |-> before, raised |-> raised, value |-> value,
     ret |-> ret, out |-> out]

NoCall == Call("none", <<>>, None, NoError, FALSE, None, <<>>)

\* The strings of at most n characters drawn from chars.
Strings(chars, n) == UNION {[1..k -> chars] : k \in 0..n}

\* The letters of the words inserted: the first and the last slot.
WordLetters == {"A", "Z"}
\* Characters outside A-Z that a query may hold: "@" is one below "A" and "a" is
\* far above "Z".
QueryOthers == {"@", "a"}
\* Characters outside A-Z and "." that a pattern may hold: "'" is 26 below "A"
\* and "[" is one above "Z".
PatternOthers == {"'", "["}

Words == Strings(WordLetters, MaxWordLen)
QueryStrings == Strings(WordLetters \cup QueryOthers, MaxWordLen)
Prefixes == Strings(WordLetters \cup {"a"}, MaxWordLen)
Patterns == Strings(WordLetters \cup {"."} \cup PatternOthers, MaxWordLen)
Wildcards == Strings(WordLetters \cup {"."}, MaxWordLen)

\* root.insert(word).  The argument goes to log; last keeps the outcome alone.
Insert(word) ==
    LET r == insert(trie, word)
    IN  /\ trie' = r.self
        /\ log' = log (+) SetToBag({word})
        /\ last' = Call("insert", <<>>, None, r.raised, FALSE, None, <<>>)
        /\ UNCHANGED <<my_hand, held>>

\* Contains with a lookup that gives a leaf root its children list.
ContainsAllocating(word) ==
    LET r == contains(trie, word)
    IN  /\ last' = Call("contains", word, <<trie>>, r.raised, r.value, None, <<>>)
        /\ trie' = IF trie.children = None
                   THEN [trie EXCEPT !.children = [i \in 1..NSlots |-> None]]
                   ELSE trie
        /\ UNCHANGED <<log, my_hand, held>>

\* word in root
Contains(word) ==
    LET r == contains(trie, word)
    IN  /\ last' = Call("contains", word, <<trie>>, r.raised, r.value, None, <<>>)
        /\ UNCHANGED <<trie, log, my_hand, held>>

\* root[prefix]
GetItem(prefix) ==
    LET r == getitem(trie, prefix)
    IN  /\ last' = Call("getitem", prefix, <<trie>>, r.raised, r.ret # None, r.ret, <<>>)
        /\ UNCHANGED <<trie, log, my_hand, held>>

\* list(root.traverse(pattern))
Traverse(pattern) ==
    LET r == traverse(trie, pattern, <<>>)
    IN  /\ last' = Call("traverse", pattern, <<trie>>, r.raised, FALSE, None, r.out)
        /\ UNCHANGED <<trie, log, my_hand, held>>

\* The first k items of root.traverse(pattern): the generator is resumed k times
\* and dropped.  It raises only if it does so before its k-th item.
TraverseTake(pattern, k) ==
    LET r == traverse(trie, pattern, <<>>)
        n == IF k < Len(r.out) THEN k ELSE Len(r.out)
    IN  /\ last' = Call("take", pattern, <<trie>>, IF k > Len(r.out) THEN r.raised ELSE NoError,
                        FALSE, None, SubSeq(r.out, 1, n))
        /\ UNCHANGED <<trie, log, my_hand, held>>

\* The insert calls made so far.
Inserts == BagCardinality(log)

-----------------------------------------------------------------------------
(* scrabble.py: a hand of tiles is a Counter, a function from its keys to counts. *)

\* default_tiles
default_tiles ==
    [c \in {Letters[i] : i \in 1..26} |->
        CASE c = "E" -> 12
          [] c \in {"A", "I"} -> 9
          [] c = "O" -> 8
          [] c \in {"N", "R", "T"} -> 6
          [] c \in {"L", "S", "D", "U"} -> 4
          [] c = "G" -> 3
          [] c \in {"B", "C", "M", "P", "F", "H", "V", "W", "Y"} -> 2
          [] c \in {"K", "J", "X", "Q", "Z"} -> 1]

\* Counter(word): each character of word with the number of times it occurs.
Counter(word) ==
    [c \in {word[i] : i \in 1..Len(word)} |-> Cardinality({i \in 1..Len(word) : word[i] = c})]

\* counter[elem]: a missing key counts 0.
Count(counter, elem) == IF elem \in DOMAIN counter THEN counter[elem] ELSE 0

\* word - hand on Counters: the counts of word less those of hand, the positive
\* ones only; a key of hand alone with a negative count comes out negated.
CounterSub(word, hand) ==
    LET keys == {e \in DOMAIN word : word[e] - Count(hand, e) > 0}
                \cup {e \in DOMAIN hand \ DOMAIN word : hand[e] < 0}
    IN  [e \in keys |-> IF e \in DOMAIN word THEN word[e] - Count(hand, e) ELSE 0 - hand[e]]

\* can_play looking only at which letters the hand has, not at how many.
can_play_any_count(word, hand) == \A e \in DOMAIN word : Count(hand, e) > 0

\* can_play(word, hand), word a Counter
can_play(word, hand) == DOMAIN CounterSub(word, hand) = {}

\* play(word, hand): the hand after the call and the value returned.
play(word, hand) ==
    LET cword == Counter(word)
    IN  IF can_play(cword, hand)
        THEN [hand |-> [e \in DOMAIN hand \cup DOMAIN cword |->
                           Count(hand, e) - Count(cword, e)],
              ret |-> TRUE]
        ELSE [hand |-> hand, ret |-> FALSE]

\* unplay(word, hand): the hand after the call.
unplay(word, hand) ==
    LET cword == Counter(word)
    IN  [e \in DOMAIN hand \cup DOMAIN cword |-> Count(hand, e) + Count(cword, e)]

HELLO == <<"H", "E", "L", "L", "O">>
LOLLY == <<"L", "O", "L", "L", "Y">>

\* The words played and taken back.
PlayWords == {HELLO, LOLLY, <<"L", "L">>, <<"Y">>, <<>>}

\* The hands a behaviour starts from: no count is negative, one is zero.
Hands ==
    {default_tiles, Counter(HELLO), Counter(LOLLY),
     [c \in {"L", "Y"} |-> IF c = "L" THEN 0 ELSE 2]}

\* play(word, my_hand).  held remembers the play and the hand it was made from,
\* for as long as nothing but failed plays follows, and whether one did.
Play(word) ==
    LET r == play(word, my_hand)
    IN  /\ my_hand' = r.hand
        /\ held' = IF r.ret THEN <<[word |-> word, before |-> my_hand, failed |-> FALSE]>>
                   ELSE IF held # None THEN <<[held[1] EXCEPT !.failed = TRUE]>>
                   ELSE held
        /\ last' = Call("play", word, <<my_hand>>, NoError, r.ret, None, <<>>)
        /\ UNCHANGED <<trie, log>>

\* unplay(word, my_hand).  last.ret is what held remembers, when this call takes
\* back that play.
Unplay(word) ==
    /\ my_hand' = unplay(word, my_hand)
    /\ held' = None
    /\ last' = Call("unplay", word, <<my_hand>>, NoError, FALSE,
                    IF held # None /\ held[1].word = word THEN held ELSE None,
                    <<>>)
    /\ UNCHANGED <<trie, log>>

-----------------------------------------------------------------------------
(* Specifications. *)

Init ==
    /\ trie = NewTrie
    /\ log = EmptyBag
    /\ last = NoCall
    /\ my_hand = Counter(<<>>)
    /\ held = None

\* A behaviour builds a trie by insert calls and then reads it by one call.  The
\* reading calls leave the trie as it was, so no behaviour is followed past one.
Building == last.op \in {"none", "insert"}

\* Words over A-Z are inserted, and the trie is queried with any string.
Next ==
    \/ \E word \in Words : Building /\ Inserts < MaxInserts /\ Insert(word)
    \/ \E word \in QueryStrings : Building /\ Contains(word)
    \/ \E prefix \in Prefixes : Building /\ GetItem(prefix)
    \/ \E pattern \in Patterns : Building /\ Traverse(pattern)
    \/ \E pattern \in Wildcards, k \in 1..MaxTake : Building /\ TraverseTake(pattern, k)

Spec == Init /\ [][Next]_vars

\* insert is called with any string, words that the assertion rejects among them.
InsertArgs == Strings(WordLetters \cup QueryOthers, MaxWordLen + 1)

NextAssert ==
    \/ \E word \in InsertArgs : Building /\ Inserts < MaxInserts /\ Insert(word)
    \/ \E prefix \in Words : Building /\ GetItem(prefix)

SpecAssert == Init /\ [][NextAssert]_vars

\* The scenario of CAT, CAR, CARD and DOG.
CAT == <<"C", "A", "T">>
CAR == <<"C", "A", "R">>
CARD == <<"C", "A", "R", "D">>
DOG == <<"D", "O", "G">>
CA == <<"C", "A">>
PatCA1 == <<"C", "A", ".">>
PatC2 == <<"C", ".", ".">>
PatC3 == <<"C", ".", ".", ".">>
Pat3 == <<".", ".", ".">>

ScenarioWords == {CAT, CAR, CARD, DOG}

NextScenario ==
    \/ \E word \in ScenarioWords : Building /\ Inserts < MaxScenarioInserts /\ Insert(word)
    \/ \E word \in {CAR, CA} : Building /\ Contains(word)
    \/ \E pattern \in {PatCA1, PatC2, PatC3, Pat3} : Building /\ Traverse(pattern)

SpecScenario == Init /\ [][NextScenario]_vars

\* A hand of tiles is played from and given back to.
InitScrabble ==
    /\ trie = NewTrie
    /\ log = EmptyBag
    /\ last = NoCall
    /\ my_hand \in Hands
    /\ held = None

\* Tiles are given back only as far as the game has tiles of that letter.
InGame(word) ==
    \A e \in DOMAIN Counter(word) :
        Count(my_hand, e) + Counter(word)[e] <= Count(default_tiles, e)

NextScrabble ==
    \/ \E word \in PlayWords : Play(word)
    \/ \E word \in PlayWords : InGame(word) /\ Unplay(word)

SpecScrabble == InitScrabble /\ [][NextScrabble]_vars

-----------------------------------------------------------------------------
(* The properties checked. *)

Range(seq) == {seq[i] : i \in 1..Len(seq)}

\* The words that insert was called with.
Inserted == BagToSet(log)

\* s is a prefix of w and shorter than w.
StrictPrefix(s, w) == Len(s) < Len(w) /\ SubSeq(w, 1, Len(s)) = s

\* w has the length of pattern and its letter wherever pattern names one.
Matches(w, pattern) ==
    /\ Len(w) = Len(pattern)
    /\ \A i \in 1..Len(pattern) : pattern[i] = "." \/ pattern[i] = w[i]

\* pattern is over A-Z and ".".
IsPattern(pattern) == \A i \in 1..Len(pattern) : IsLetter(pattern[i]) \/ pattern[i] = "."

\* word is over A-Z.
IsWord(word) == \A i \in 1..Len(word) : IsLetter(word[i])

\* a < b as Python compares strings: by code points, a prefix before its extensions.
RECURSIVE LexLess(_, _)
LexLess(a, b) ==
    IF b = <<>> THEN FALSE
    ELSE IF a = <<>> THEN TRUE
    ELSE IF Head(a) # Head(b) THEN ord(Head(a)) < ord(Head(b))
    ELSE LexLess(Tail(a), Tail(b))

\* How many of the insert calls had a word that goes on past s.
RECURSIVE PassedThrough(_, _)
PassedThrough(s, words) ==
    IF words = {} THEN 0
    ELSE LET w == CHOOSE x \in words : TRUE
         IN  (IF StrictPrefix(s, w) THEN CopiesIn(w, log) ELSE 0)
             + PassedThrough(s, words \ {w})

\* C1: every word that was inserted is contained in the trie, in whatever order
\* the words went in, repeated or not, prefixes of one another or not.
C1_InsertedAreContained ==
    last.op = "contains" /\ last.arg \in Inserted => last.raised = NoError /\ last.value

\* C1 witness: a contains call found a word that is a strict prefix of another
\* inserted word, with a word inserted twice.
C1_Witness ==
    /\ last.op = "contains" /\ last.value /\ last.arg \in Inserted
    /\ \E w \in Inserted : StrictPrefix(last.arg, w)
    /\ \E w \in Inserted : CopiesIn(w, log) >= 2

\* C2: contains of a string that was never inserted returns false and does not
\* raise, whatever characters the string holds.
C2_NeverInsertedIsAbsent ==
    last.op = "contains" /\ last.arg \notin Inserted
        => last.raised = NoError /\ ~last.value

\* C3: for a pattern over A-Z and ".", traverse yields exactly the inserted words
\* of the pattern's length that agree with it wherever it names a letter.
C3_TraverseYieldsTheMatches ==
    last.op = "traverse" /\ IsPattern(last.arg)
        => /\ last.raised = NoError
           /\ Range(last.out) = {w \in Inserted : Matches(w, last.arg)}

\* C3 witness: a pattern with a wildcard yielded a word while the trie also holds
\* a word of another length and a word of that length that does not match.
C3_Witness ==
    /\ last.op = "traverse" /\ IsPattern(last.arg) /\ last.out # <<>>
    /\ \E i \in 1..Len(last.arg) : last.arg[i] = "."
    /\ \E w \in Inserted : Len(w) # Len(last.arg)
    /\ \E w \in Inserted : Len(w) = Len(last.arg) /\ ~Matches(w, last.arg)

\* C4: for a pattern over A-Z and ".", the words traverse yields are in strictly
\* ascending order, so none comes twice.
C4_TraverseIsAscending ==
    last.op = "traverse" /\ IsPattern(last.arg)
        => \A i \in 1..(Len(last.out) - 1) : LexLess(last.out[i], last.out[i + 1])

\* C4 witness: traverse yielded two words or more, one of them inserted twice.
C4_Witness ==
    /\ last.op = "traverse" /\ IsPattern(last.arg) /\ Len(last.out) >= 2
    /\ \E w \in Range(last.out) : CopiesIn(w, log) >= 2

\* C5 as stated: with exactly CAT, CAR, CARD and DOG inserted, CAR is contained
\* and CA is not, "CA." yields CAR, "C.." yields CAT, "C..." yields CARD and
\* "..." yields CAT, DOG.
C5_ScenarioAsStated ==
    Inserted = ScenarioWords
        => /\ contains(trie, CAR).value
           /\ ~contains(trie, CA).value
           /\ traverse(trie, PatCA1, <<>>).out = <<CAR>>
           /\ traverse(trie, PatC2, <<>>).out = <<CAT>>
           /\ traverse(trie, PatC3, <<>>).out = <<CARD>>
           /\ traverse(trie, Pat3, <<>>).out = <<CAT, DOG>>

\* C5 amended: with exactly CAT, CAR, CARD and DOG inserted, CAR is contained
\* and CA is not, "CA." yields CAR, CAT, "C.." yields CAR, CAT, "C..." yields
\* CARD and "..." yields CAR, CAT, DOG.
C5_Scenario ==
    Inserted = ScenarioWords
        => /\ contains(trie, CAR) = [value |-> TRUE, raised |-> NoError]
           /\ contains(trie, CA) = [value |-> FALSE, raised |-> NoError]
           /\ traverse(trie, PatCA1, <<>>) = [out |-> <<CAR, CAT>>, raised |-> NoError]
           /\ traverse(trie, PatC2, <<>>) = [out |-> <<CAR, CAT>>, raised |-> NoError]
           /\ traverse(trie, PatC3, <<>>) = [out |-> <<CARD>>, raised |-> NoError]
           /\ traverse(trie, Pat3, <<>>) = [out |-> <<CAR, CAT, DOG>>, raised |-> NoError]

\* C5 witness: the four words are in and traverse("CA.") has yielded CAR, CAT.
C5_Witness ==
    /\ Inserted = ScenarioWords
    /\ last.op = "traverse" /\ last.arg = PatCA1 /\ last.out = <<CAR, CAT>>

\* C6: traverse of a pattern holding a character outside A-Z and "." does not
\* raise and yields nothing but stored words.
C6_BadPatternMatchesNothing ==
    last.op = "traverse" /\ ~IsPattern(last.arg)
        => last.raised = NoError /\ Range(last.out) \subseteq Inserted

\* C7: contains, lookup of a prefix and traverse, consumed in full or in part,
\* leave the trie as it was.
C7_QueriesAreReadOnly ==
    last.op \in {"contains", "getitem", "traverse", "take"} => <<trie>> = last.before

\* C7 witness: contains was asked for a path that a trie with children lacks.
C7_Witness ==
    /\ last.op = "contains" /\ ~last.value /\ last.raised = NoError
    /\ trie.children # None
    /\ getitem(trie, last.arg).ret = None

\* C8: after successful inserts, the n_descendants of every node is the number
\* of insert calls whose word goes on past the node's string.
C8_DescendantsCountInserts ==
    last.op = "insert" /\ (\A w \in Inserted : IsWord(w))
        => \A s \in Words :
               LET r == getitem(trie, s)
               IN  r.ret # None => r.ret[1].n_descendants = PassedThrough(s, Inserted)

\* C8 witness: a word of two letters went in twice, so that the root and the
\* node of its first letter count 2 for one stored word.
C8_Witness ==
    /\ last.op = "insert" /\ last.raised = NoError
    /\ \E w \in Inserted : Len(w) = 2 /\ CopiesIn(w, log) = 2
    /\ trie.n_descendants >= 2

\* C9: play succeeds exactly when the hand covers the word and then takes those
\* tiles, a failed play leaves the hand alone, unplay after a successful play
\* and failed plays gives back the hand as it was, and no count is negative.
C9_PlayAndUnplay ==
    /\ \A e \in DOMAIN my_hand : my_hand[e] >= 0
    /\ last.op = "play" =>
           LET before == last.before[1]
               cword == Counter(last.arg)
           IN  /\ last.value <=> \A e \in DOMAIN cword : cword[e] <= Count(before, e)
               /\ last.value =>
                      \A e \in Chars : Count(my_hand, e) = Count(before, e) - Count(cword, e)
               /\ ~last.value => my_hand = before
    /\ last.op = "unplay" /\ last.ret # None => my_hand = last.ret[1].before

\* C9 witness: a word of a repeated letter was played, a play failed, and the
\* word was taken back.
C9_Witness ==
    /\ last.op = "unplay" /\ last.ret # None /\ last.ret[1].failed
    /\ \E e \in DOMAIN Counter(last.arg) : Counter(last.arg)[e] >= 2
    /\ my_hand = last.ret[1].before

\* C10: an insert that fails on a character outside A-Z leaves the trie as it
\* was before the call.
C10_FailedInsertChangesNothing ==
    [][last'.op = "insert" /\ last'.raised = AssertionError => trie' = trie]_vars

====
